---- MODULE Spec2Model ----
(***************************************************************************)
(* A model of the pinocchio-amm program: the curve function                *)
(* xy_deposit_amounts_from_l (state.rs, state/curve.rs), the Deposit       *)
(* handler (instructions/deposit.rs), Withdraw's construction              *)
(* (instructions/withdraw.rs), the Initialize handler                      *)
(* (instructions/initialize.rs), the account checks and creations they     *)
(* share (instructions/helper.rs) and the error codes (error.rs).          *)
(*                                                                         *)
(* Integers keep their width, scaled down: a u64 is a word of WordBits     *)
(* bits and a u128 a word of 2 * WordBits bits, so that the product of two *)
(* u64 values always fits a u128, as in the program, and an `as u64` cast  *)
(* keeps the low WordBits bits.                                            *)
(*                                                                         *)
(* The entrypoint dispatches nothing (entrypoint.rs:3-9), so the public    *)
(* functions are the operations of the model: Deposit::try_from,           *)
(* Deposit::process (callable on any Deposit value: the struct and its     *)
(* fields are public), Withdraw::try_from, the curve function, the two     *)
(* conversions of an error into ProgramError, and Initialize as one        *)
(* instruction (InitializeConfig::try_from, then process on its result).   *)
(***************************************************************************)
EXTENDS Integers, Sequences, FiniteSets, TLC

VARIABLES
    amount,     \* amount[k]: the balance recorded in token account k
    created,    \* the user's associated token accounts that exist
    pool,       \* the accounts at the addresses of a pool not yet initialized
    calls,      \* number of calls made
    last        \* the last call: its inputs, its result, the effects requested

vars == <<amount, created, pool, calls, last>>

(***************************************************************************)
(* Bounds                                                                  *)
(***************************************************************************)
WordBits == 14
MaxCalls == 1

(***************************************************************************)
(* Integer types                                                           *)
(***************************************************************************)
U64_MAX == 2^WordBits - 1
U128_MAX == 2^(2 * WordBits) - 1

\* Option::None of a checked operation
None == -1

checked_add(a, b) ==
    IF a = None \/ b = None THEN None
    ELSE IF a > U128_MAX - b THEN None ELSE a + b

checked_sub(a, b) ==
    IF a = None \/ b = None THEN None
    ELSE IF a < b THEN None ELSE a - b

checked_mul(a, b) ==
    IF a = None \/ b = None THEN None
    ELSE IF b # 0 /\ a > U128_MAX \div b THEN None ELSE a * b

checked_div(a, b) ==
    IF a = None \/ b = None THEN None
    ELSE IF b = 0 THEN None ELSE a \div b

\* `v as u64` of a u128: the low 64 bits
as_u64(v) == v % (U64_MAX + 1)

Min(a, b) == IF a <= b THEN a ELSE b

(***************************************************************************)
(* Curve engine: XYAmounts::xy_deposit_amounts_from_l                      *)
(***************************************************************************)
\* curve_ratio without the scaling by precision
curve_ratio_unscaled(l, a, precision) ==
    checked_div(checked_add(l, a), l)

\* ratio = (l + a) * precision / l, every step checked
curve_ratio(l, a, precision) ==
    checked_div(checked_mul(checked_add(l, a), precision), l)

\* x * ratio / precision - x, every step checked (None on failure)
curve_amount_wide(x, ratio, precision) ==
    checked_sub(checked_div(checked_mul(x, ratio), precision), x)

xy_deposit_amounts_from_l(x, y, l, a, precision) ==
    LET ratio == curve_ratio(l, a, precision)
        wide_x == curve_amount_wide(x, ratio, precision)
        wide_y == curve_amount_wide(y, ratio, precision)
    IN  IF ratio = None \/ wide_x = None \/ wide_y = None
        THEN [err |-> "Overflow", x |-> 0, y |-> 0]
        ELSE [err |-> "Ok", x |-> as_u64(wide_x), y |-> as_u64(wide_y)]

(***************************************************************************)
(* The ledger: accounts, their owners and data, and address derivation     *)
(***************************************************************************)
AmmProgram == "amm_program"          \* crate::ID
TokenProgram == "token_program"      \* pinocchio_token::ID
SystemProgram == "system_program"

MintLEN == 82
TokenAccountLEN == 165
ConfigLEN == 196
\* the derivation salt stored in the pool's Config
StoredConfigBump == 255
\* a salt for which ["config", salt] derives the address new_config, where
\* no pool is initialized yet
NewConfigBump == 254

\* the accounts an Initialize at new_config names besides the pool storage
NewPoolAccounts == {"new_lp_mint", "new_vault_x", "new_vault_y"}

\* the Config read from account data that is all zeroes
ZeroedConfig ==
    [authority |-> "zero", mint_x |-> "zero", mint_y |-> "zero",
     mint_x_vault |-> "zero", mint_y_vault |-> "zero", lp_mint |-> "zero",
     fee |-> 0, config_bump |-> 0]

\* new_config before any Initialize: no data, owned by the system program,
\* and none of the accounts of its pool exists
EmptyPool ==
    [owner |-> SystemProgram, data_len |-> 0, config |-> ZeroedConfig,
     accounts |-> {}]

Mints == {"mint_x", "mint_y", "lp_mint"}
UserAtas == {"user_x_ata", "user_y_ata", "user_lp_ata"}
\* forged_x is a token account whose recorded owner is the pool and whose
\* recorded mint is mint_x, at an address that is not derived from them;
\* vault_lp and vault_lp_y are the share accounts derived for vault_x and
\* for vault_y
PoolTokenAccounts == {"vault_x", "vault_y", "vault_lp", "vault_lp_y", "forged_x"}
TokenAccounts == PoolTokenAccounts \cup UserAtas

\* the address of no account of the ledger
OffLedger == "off_ledger"

\* AccountInfo::owner
AccountOwner(k) ==
    IF k \in PoolTokenAccounts \cup Mints THEN TokenProgram
    ELSE IF k \in UserAtas THEN (IF k \in created THEN TokenProgram ELSE SystemProgram)
    ELSE IF k = "config" THEN AmmProgram
    ELSE IF k = "new_config" THEN pool.owner
    ELSE IF k \in {"new_vault_x", "new_vault_y"} \cap pool.accounts THEN TokenProgram
    ELSE SystemProgram

\* AccountInfo::data_len
DataLen(k) ==
    IF k \in PoolTokenAccounts THEN TokenAccountLEN
    ELSE IF k \in UserAtas THEN (IF k \in created THEN TokenAccountLEN ELSE 0)
    ELSE IF k \in Mints THEN MintLEN
    ELSE IF k = "config" THEN ConfigLEN
    ELSE IF k = "new_config" THEN pool.data_len
    ELSE IF k \in {"new_vault_x", "new_vault_y"} \cap pool.accounts THEN TokenAccountLEN
    ELSE IF k \in {"new_lp_mint"} \cap pool.accounts THEN MintLEN
    ELSE 0

\* TokenAccount::owner
TokenOwner(k) ==
    CASE k \in {"vault_x", "vault_y", "forged_x"} -> "config"
      [] k = "vault_lp" -> "vault_x"
      [] k = "vault_lp_y" -> "vault_y"
      [] k \in UserAtas -> "user"
      [] OTHER -> OffLedger

\* TokenAccount::mint
TokenMint(k) ==
    CASE k \in {"vault_x", "forged_x", "user_x_ata"} -> "mint_x"
      [] k \in {"vault_y", "user_y_ata"} -> "mint_y"
      [] k \in {"vault_lp", "vault_lp_y", "user_lp_ata"} -> "lp_mint"
      [] OTHER -> OffLedger

\* TokenAccount::amount
TokenAmount(k) == IF k \in DOMAIN amount THEN amount[k] ELSE 0

\* find_program_address([authority, token program, mint], associated token
\* program): deterministic, and no two pairs share an address
AssociatedAddress(authority, mint) ==
    CASE authority = "config" /\ mint = "mint_x" -> "vault_x"
      [] authority = "config" /\ mint = "mint_y" -> "vault_y"
      [] authority = "vault_x" /\ mint = "lp_mint" -> "vault_lp"
      [] authority = "vault_y" /\ mint = "lp_mint" -> "vault_lp_y"
      [] authority = "user" /\ mint = "mint_x" -> "user_x_ata"
      [] authority = "user" /\ mint = "mint_y" -> "user_y_ata"
      [] authority = "user" /\ mint = "lp_mint" -> "user_lp_ata"
      [] authority = "new_config" /\ mint = "mint_x" -> "new_vault_x"
      [] authority = "new_config" /\ mint = "mint_y" -> "new_vault_y"
      [] OTHER -> OffLedger

\* find_program_address(["config", bump], crate::ID)
ConfigAddress(bump) == IF bump = StoredConfigBump THEN "config" ELSE OffLedger

\* find_program_address(["lp_mint", config key], crate::ID)
LpMintAddress(config) == IF config = "config" THEN "lp_mint" ELSE OffLedger

\* Config::config_bump of the record stored in an account
config_bump(k) == IF k = "config" THEN StoredConfigBump ELSE 0

\* Config::load
ConfigLoad(k) ==
    IF DataLen(k) # ConfigLEN THEN "InvalidAccountData"
    ELSE IF AccountOwner(k) # AmmProgram THEN "InvalidAccountOwner"
    ELSE "Ok"

(***************************************************************************)
(* Validation layer (helper.rs)                                            *)
(***************************************************************************)
SignerAccountCheck(is_signer) ==
    IF ~is_signer THEN "MissingRequiredSignature" ELSE "Ok"

MintInterfaceCheck(k) ==
    IF DataLen(k) # MintLEN THEN "InvalidAccountData" ELSE "Ok"

TokenAccountCheck(k) ==
    IF AccountOwner(k) # TokenProgram THEN "IllegalOwner"
    ELSE IF DataLen(k) # TokenAccountLEN THEN "InvalidAccountData"
    ELSE "Ok"

AssociatedTokenAccountCheck(account, authority, mint) ==
    IF TokenAccountCheck(account) # "Ok" THEN TokenAccountCheck(account)
    ELSE IF AssociatedAddress(authority, mint) # account THEN "InvalidAccountData"
    ELSE "Ok"

\* the first error of a sequence of check results, "Ok" if there is none
RECURSIVE FirstError(_)
FirstError(checks) ==
    IF checks = <<>> THEN "Ok"
    ELSE IF Head(checks) # "Ok" THEN Head(checks)
    ELSE FirstError(Tail(checks))

(***************************************************************************)
(* Deposit::process (deposit.rs:161-278)                                   *)
(***************************************************************************)
MinimumShares == 1000

\* u128::isqrt: the integer square root, by Newton's iteration from above
RECURSIVE isqrt_from(_, _)
isqrt_from(n, r) ==
    LET next == (r + n \div r) \div 2
    IN  IF next >= r THEN r ELSE isqrt_from(n, next)

isqrt(n) == IF n = 0 THEN 0 ELSE isqrt_from(n, n)

\* the branch condition of the share computation (deposit.rs:210)
is_first_deposit(reserve_mint_x, reserve_mint_y, lp_supply) ==
    reserve_mint_x = 0 /\ reserve_mint_y = 0

\* initial_share_supply without the minimum of 1000 shares
initial_share_supply_no_floor(mint_x, mint_y) ==
    LET product == checked_mul(mint_x, mint_y)
    IN  IF product = None THEN [err |-> "MathOverflow", shares |-> 0]
        ELSE IF product = 0 THEN [err |-> "InvalidMintSupply", shares |-> 0]
        ELSE [err |-> "Ok", shares |-> as_u64(isqrt(product))]

\* the first-deposit branch (deposit.rs:211-225)
initial_share_supply(mint_x, mint_y) ==
    LET product == checked_mul(mint_x, mint_y)
        sqrt_result == as_u64(isqrt(product))
    IN  IF product = None THEN [err |-> "MathOverflow", shares |-> 0]
        ELSE IF product = 0 THEN [err |-> "InvalidMintSupply", shares |-> 0]
        ELSE IF sqrt_result < MinimumShares
             THEN [err |-> "InvalidMintSupply", shares |-> 0]
        ELSE [err |-> "Ok", shares |-> sqrt_result]

\* lp_from with the quotient rounded up instead of down
lp_from_rounding_up(mint, lp_supply, reserve) ==
    LET product == checked_mul(mint, lp_supply)
        wide == IF product = None \/ reserve = 0 THEN None
                ELSE (product + reserve - 1) \div reserve
    IN  IF wide = None THEN None ELSE as_u64(wide)

\* mint * lp_supply / reserve as u64 (deposit.rs:231-235, 237-241)
lp_from(mint, lp_supply, reserve) ==
    LET wide == checked_div(checked_mul(mint, lp_supply), reserve)
    IN  IF wide = None THEN None ELSE as_u64(wide)

\* the proportional branch (deposit.rs:227-243)
proportional_mint_amount(reserve_mint_x, reserve_mint_y, lp_supply, mint_x, mint_y) ==
    LET lp_from_x == lp_from(mint_x, lp_supply, reserve_mint_x)
        lp_from_y == lp_from(mint_y, lp_supply, reserve_mint_y)
    IN  IF reserve_mint_x = 0 \/ reserve_mint_y = 0 \/ lp_supply = 0
        THEN [err |-> "InvalidMintSupply", shares |-> 0]
        ELSE IF lp_from_x = None \/ lp_from_y = None
             THEN [err |-> "MathOverflow", shares |-> 0]
        ELSE [err |-> "Ok", shares |-> Min(lp_from_x, lp_from_y)]

\* lp_mint_tokens_supply (deposit.rs:210-244)
lp_mint_tokens_supply(reserve_mint_x, reserve_mint_y, lp_supply, mint_x, mint_y) ==
    IF is_first_deposit(reserve_mint_x, reserve_mint_y, lp_supply)
    THEN initial_share_supply(mint_x, mint_y)
    ELSE proportional_mint_amount(reserve_mint_x, reserve_mint_y, lp_supply,
                                  mint_x, mint_y)

\* minted_amount_check without the comparison with min_lp_amount
minted_amount_check_no_minimum(shares, min_lp_amount) ==
    IF shares = 0 THEN "InvalidAmount" ELSE "Ok"

\* the checks on the computed amount (deposit.rs:246-252)
minted_amount_check(shares, min_lp_amount) ==
    IF shares = 0 THEN "InvalidAmount"
    ELSE IF shares < min_lp_amount THEN "SlipageExceeded"
    ELSE "Ok"

\* the checks before the balances are read (deposit.rs:162-203)
deposit_process_checks(acc) ==
    FirstError(<<
        ConfigLoad(acc.config),
        IF ConfigAddress(config_bump(acc.config)) # acc.config
            THEN "InvalidConfig" ELSE "Ok",
        IF LpMintAddress(acc.config) # acc.lp_mint
            THEN "InvalidLpMint" ELSE "Ok",
        IF TokenOwner(acc.vault_x) # acc.config \/ TokenOwner(acc.vault_y) # acc.config
            THEN "InvalidOwner" ELSE "Ok",
        IF TokenMint(acc.vault_x) # acc.mint_x \/ TokenMint(acc.vault_y) # acc.mint_y
            THEN "InvalidAccountData" ELSE "Ok"
    >>)

\* Transfer { from, to, amount, authority }.invoke() and
\* MintTo { account, mint, amount, mint_authority }.invoke(): invoke() passes
\* no signer seeds
Transfer(from, to, amt, authority) ==
    [kind |-> "Transfer", from |-> from, to |-> to, mint |-> "",
     amount |-> amt, authority |-> authority, signer_seeds |-> <<>>]

MintTo(account, mint, amt, mint_authority) ==
    [kind |-> "MintTo", from |-> "", to |-> account, mint |-> mint,
     amount |-> amt, authority |-> mint_authority, signer_seeds |-> <<>>]

\* the effects requested (deposit.rs:254-276)
deposit_effects(acc, ins, shares) ==
    << Transfer(acc.user_x_ata, acc.vault_x, ins.mint_x, acc.user),
       Transfer(acc.user_y_ata, acc.vault_y, ins.mint_y, acc.user),
       MintTo(acc.lp_mint, acc.lp_mint, shares, acc.config) >>

\* the result of Deposit::process on the accounts acc and the instruction ins
deposit_process(acc, ins) ==
    LET checks == deposit_process_checks(acc)
        reserves == [x |-> TokenAmount(acc.vault_x), y |-> TokenAmount(acc.vault_y),
                     lp |-> TokenAmount(acc.vault_lp)]
        computed == lp_mint_tokens_supply(reserves.x, reserves.y, reserves.lp,
                                          ins.mint_x, ins.mint_y)
        minted == minted_amount_check(computed.shares, ins.min_lp_amount)
        none == [x |-> 0, y |-> 0, lp |-> 0]
    IN  IF checks # "Ok"
        THEN [err |-> checks, arithmetic |-> FALSE, reserves |-> none,
              shares |-> 0, effects |-> <<>>]
        ELSE IF computed.err # "Ok"
        THEN [err |-> computed.err, arithmetic |-> TRUE, reserves |-> reserves,
              shares |-> 0, effects |-> <<>>]
        ELSE IF minted # "Ok"
        THEN [err |-> minted, arithmetic |-> TRUE, reserves |-> reserves,
              shares |-> computed.shares, effects |-> <<>>]
        ELSE [err |-> "Ok", arithmetic |-> TRUE, reserves |-> reserves,
              shares |-> computed.shares,
              effects |-> deposit_effects(acc, ins, computed.shares)]

\* The token program applying the requested effects to the balances: a
\* Transfer credits its destination; a MintTo credits its destination when
\* that is a token account whose balance the ledger records.
RECURSIVE ApplyEffects(_, _)
ApplyEffects(bal, effects) ==
    IF effects = <<>> THEN bal
    ELSE LET e == Head(effects)
             credited == IF e.to \in DOMAIN bal
                         THEN [bal EXCEPT ![e.to] = @ + e.amount] ELSE bal
         IN  ApplyEffects(credited, Tail(effects))

(***************************************************************************)
(* Lazy creation of associated token accounts (helper.rs:141-176)          *)
(***************************************************************************)
\* pinocchio_associated_token_account Create { account, funding_account,
\* mint, wallet }.invoke()
CreateAssociated(ata, mint, authority, owner) ==
    [kind |-> "CreateAssociated", from |-> authority, to |-> ata, mint |-> mint,
     amount |-> 0, authority |-> owner, signer_seeds |-> <<>>]

\* AssociatedTokenAccount::init_if_needed: the effects it requests
init_if_needed(ata, mint, authority, owner) ==
    IF AssociatedTokenAccountCheck(ata, authority, mint) = "Ok" THEN <<>>
    ELSE << CreateAssociated(ata, mint, authority, owner) >>

\* The associated token program serving a creation request: it creates the
\* account at the address derived from (wallet, mint) and nowhere else.
CreateServed(e) ==
    /\ e.to = AssociatedAddress(e.authority, e.mint)
    /\ e.to \in UserAtas
    /\ e.to \notin created

(***************************************************************************)
(* Deposit::try_from (deposit.rs:43-157)                                   *)
(***************************************************************************)
DepositAccountsLEN == 14
DepositDataLEN == 24

\* DepositAccounts::try_from
deposit_accounts_try_from(n_accounts, acc, is_signer) ==
    IF n_accounts # DepositAccountsLEN THEN "InvalidAccountData"
    ELSE FirstError(<<
        SignerAccountCheck(is_signer),
        MintInterfaceCheck(acc.mint_x),
        MintInterfaceCheck(acc.mint_y),
        AssociatedTokenAccountCheck(acc.user_x_ata, acc.user, acc.mint_x),
        AssociatedTokenAccountCheck(acc.user_y_ata, acc.user, acc.mint_y),
        AssociatedTokenAccountCheck(acc.user_lp_ata, acc.user, acc.lp_mint),
        AssociatedTokenAccountCheck(acc.vault_lp, acc.vault_x, acc.lp_mint),
        AssociatedTokenAccountCheck(acc.vault_lp, acc.vault_y, acc.lp_mint),
        IF LpMintAddress(acc.config) # acc.lp_mint
            THEN "InvalidAccountData" ELSE "Ok",
        IF acc.mint_x = acc.mint_y THEN "IdenticalTokenMints" ELSE "Ok"
    >>)

\* DepositInstructions::try_from
deposit_instructions_try_from(data_len, ins) ==
    IF data_len # DepositDataLEN THEN "InvalidInstructionData"
    ELSE IF ins.mint_x = 0 \/ ins.mint_y = 0 THEN "InvalidMintAmount"
    ELSE "Ok"

\* Deposit::try_from: its result and the effects it requests
deposit_try_from(n_accounts, acc, is_signer, data_len, ins) ==
    LET accounts == deposit_accounts_try_from(n_accounts, acc, is_signer)
        instructions == deposit_instructions_try_from(data_len, ins)
    IN  IF accounts # "Ok" THEN [err |-> accounts, effects |-> <<>>]
        ELSE IF instructions # "Ok" THEN [err |-> instructions, effects |-> <<>>]
        ELSE [err |-> "Ok",
              effects |-> init_if_needed(acc.user_lp_ata, acc.lp_mint,
                                         acc.user, acc.user)]

(***************************************************************************)
(* Withdraw::try_from (withdraw.rs:36-144)                                 *)
(***************************************************************************)
WithdrawAccountsLEN == 13
WithdrawDataLEN == 32

\* WithdrawAccounts::try_from
withdraw_accounts_try_from(n_accounts, acc, is_signer) ==
    IF n_accounts # WithdrawAccountsLEN THEN "InvalidAccountData"
    ELSE FirstError(<<
        SignerAccountCheck(is_signer),
        AssociatedTokenAccountCheck(acc.vault_x, acc.config, acc.mint_x),
        AssociatedTokenAccountCheck(acc.vault_y, acc.config, acc.mint_y),
        AssociatedTokenAccountCheck(acc.user_x_ata, acc.user, acc.mint_x),
        AssociatedTokenAccountCheck(acc.user_y_ata, acc.user, acc.mint_y),
        AssociatedTokenAccountCheck(acc.user_lp_ata, acc.user, acc.mint_lp)
    >>)

\* WithdrawInstructions::try_from; now is Clock::get()?.unix_timestamp
withdraw_instructions_try_from(data_len, ins, now) ==
    IF data_len # WithdrawDataLEN THEN "InvalidInstructionData"
    ELSE IF ins.amount <= 0 \/ ins.min_x <= 0 \/ ins.min_y <= 0
         THEN "LessThanMinimum"
    ELSE IF ins.expiration > as_u64(now) THEN "Expired"
    ELSE "Ok"

\* Withdraw::try_from: its result and the effects it requests
withdraw_try_from(n_accounts, acc, is_signer, data_len, ins, now) ==
    LET accounts == withdraw_accounts_try_from(n_accounts, acc, is_signer)
        instructions == withdraw_instructions_try_from(data_len, ins, now)
    IN  IF accounts # "Ok" THEN [err |-> accounts, effects |-> <<>>]
        ELSE IF instructions # "Ok" THEN [err |-> instructions, effects |-> <<>>]
        ELSE [err |-> "Ok",
              effects |-> init_if_needed(acc.user_x_ata, acc.mint_x,
                                         acc.user, acc.user)
                          \o init_if_needed(acc.user_y_ata, acc.mint_y,
                                            acc.user, acc.user)]

(***************************************************************************)
(* Inputs                                                                  *)
(***************************************************************************)
MaxTime == 2

ReserveXs == {0, 1, 1000}
ReserveYs == {0, 1, 2000}
LpSupplies == {0, 500}
MintXs == {0, 1, 10, 100, 1000}
MintYs == {10, 100, 200, 4000, U64_MAX}
MinLps == {0, 60}
Times == 0 .. MaxTime

\* the account list of a genuine Deposit
GenuineDeposit ==
    [user |-> "user", mint_x |-> "mint_x", mint_y |-> "mint_y",
     lp_mint |-> "lp_mint", config |-> "config",
     vault_x |-> "vault_x", vault_y |-> "vault_y", vault_lp |-> "vault_lp",
     user_x_ata |-> "user_x_ata", user_y_ata |-> "user_y_ata",
     user_lp_ata |-> "user_lp_ata"]

\* the genuine list, and lists with one account substituted
DepositAccountLists ==
    { GenuineDeposit,
      [GenuineDeposit EXCEPT !.vault_x = "forged_x"],
      [GenuineDeposit EXCEPT !.vault_x = "user_x_ata"],
      [GenuineDeposit EXCEPT !.vault_y = "vault_x"],
      [GenuineDeposit EXCEPT !.vault_lp = "vault_lp_y"],
      [GenuineDeposit EXCEPT !.lp_mint = "mint_x"],
      [GenuineDeposit EXCEPT !.config = "user"],
      [GenuineDeposit EXCEPT !.mint_y = "mint_x"] }

DepositInstructionsSet ==
    [mint_x : MintXs, mint_y : MintYs, min_lp_amount : MinLps]

\* the account list of a genuine Withdraw
GenuineWithdraw ==
    [user |-> "user", mint_lp |-> "lp_mint", vault_x |-> "vault_x",
     vault_y |-> "vault_y", mint_x |-> "mint_x", mint_y |-> "mint_y",
     user_x_ata |-> "user_x_ata", user_y_ata |-> "user_y_ata",
     user_lp_ata |-> "user_lp_ata", config |-> "config"]

WithdrawAccountLists ==
    { GenuineWithdraw,
      [GenuineWithdraw EXCEPT !.vault_x = "forged_x"],
      [GenuineWithdraw EXCEPT !.vault_y = "vault_x"],
      [GenuineWithdraw EXCEPT !.user_x_ata = "vault_x"] }

WithdrawInstructionsSet ==
    { [amount |-> t[1], min_x |-> t[2], min_y |-> t[3], expiration |-> e] :
        t \in {<<1, 1, 1>>, <<0, 1, 1>>, <<1, 0, 1>>, <<1, 1, 0>>}, e \in Times }

\* what the record of a call holds for an input the call did not read
NotRead == [read |-> FALSE]

\* An input the call does not read is drawn once, not from its whole set:
\* a record as NotRead, a number as None.
Drawn(is_read, values) == IF is_read THEN values ELSE {NotRead}

DrawnNumber(is_read, values) == IF is_read THEN values ELSE {None}

(***************************************************************************)
(* The state machine                                                       *)
(***************************************************************************)
Init ==
    /\ \E x \in ReserveXs, y \in ReserveYs, lp \in LpSupplies :
          amount = [k \in PoolTokenAccounts |->
                      CASE k = "vault_x" -> x
                        [] k = "vault_y" -> y
                        [] k = "vault_lp" -> lp
                        [] OTHER -> 1]
    /\ created \in {UserAtas, UserAtas \ {"user_lp_ata"}, UserAtas \ {"user_x_ata"}}
    /\ pool = EmptyPool
    /\ calls = 0
    /\ last = [op |-> "none", err |-> "Ok", effects |-> <<>>]

\* Deposit::process on a Deposit value, the token program applying the
\* effects it requests
DepositProcess ==
    /\ calls < MaxCalls
    /\ \E acc \in DepositAccountLists :
       \E ins \in Drawn(deposit_process_checks(acc) = "Ok", DepositInstructionsSet) :
        LET r == deposit_process(acc, ins)
            after == ApplyEffects(amount, r.effects)
            served == \A k \in DOMAIN after : after[k] <= U64_MAX
        IN  /\ amount' = IF r.err = "Ok" /\ served THEN after ELSE amount
            /\ last' = [op |-> "Deposit::process",
                        accounts |-> acc,
                        instructions |-> ins,
                        before |-> amount,
                        err |-> IF r.err = "Ok" /\ ~served
                                THEN "TokenProgramError" ELSE r.err,
                        arithmetic |-> r.arithmetic,
                        reserves |-> r.reserves,
                        shares |-> r.shares,
                        effects |-> r.effects]
    /\ calls' = calls + 1
    /\ UNCHANGED <<created, pool>>

\* Deposit::try_from on an account list and instruction data, the associated
\* token program serving the creation it requests
DepositTryFrom ==
    /\ calls < MaxCalls
    /\ \E acc \in DepositAccountLists,
          n_accounts \in {DepositAccountsLEN - 1, DepositAccountsLEN},
          is_signer \in BOOLEAN :
       LET accounts == deposit_accounts_try_from(n_accounts, acc, is_signer)
       IN
       \E data_len \in DrawnNumber(accounts = "Ok", {DepositDataLEN, WithdrawDataLEN}) :
       \E ins \in Drawn(accounts = "Ok" /\ data_len = DepositDataLEN,
                        [mint_x : {0, 100}, mint_y : {0, 200}, min_lp_amount : {0}]) :
        LET r == deposit_try_from(n_accounts, acc, is_signer, data_len, ins)
            served == \A i \in DOMAIN r.effects : CreateServed(r.effects[i])
        IN  /\ created' = IF served
                          THEN created \cup {r.effects[i].to : i \in DOMAIN r.effects}
                          ELSE created
            /\ last' = [op |-> "Deposit::try_from",
                        accounts |-> acc,
                        n_accounts |-> n_accounts,
                        is_signer |-> is_signer,
                        data_len |-> data_len,
                        instructions |-> ins,
                        before |-> amount,
                        existed |-> created,
                        err |-> IF ~served THEN "AssociatedTokenProgramError" ELSE r.err,
                        arithmetic |-> FALSE,
                        effects |-> r.effects]
    /\ calls' = calls + 1
    /\ UNCHANGED <<amount, pool>>

\* Withdraw::try_from on an account list and instruction data, at the
\* ledger's current time now
WithdrawTryFrom ==
    /\ calls < MaxCalls
    /\ \E acc \in WithdrawAccountLists,
          n_accounts \in {WithdrawAccountsLEN, DepositAccountsLEN},
          is_signer \in BOOLEAN :
       LET accounts == withdraw_accounts_try_from(n_accounts, acc, is_signer)
       IN
       \E data_len \in DrawnNumber(accounts = "Ok", {DepositDataLEN, WithdrawDataLEN}) :
       \E ins \in Drawn(accounts = "Ok" /\ data_len = WithdrawDataLEN,
                        WithdrawInstructionsSet) :
       \E now \in DrawnNumber(/\ accounts = "Ok"
                              /\ data_len = WithdrawDataLEN
                              /\ ~(ins.amount <= 0 \/ ins.min_x <= 0 \/ ins.min_y <= 0),
                              Times) :
        LET r == withdraw_try_from(n_accounts, acc, is_signer, data_len, ins, now)
            served == \A i \in DOMAIN r.effects : CreateServed(r.effects[i])
        IN  /\ created' = IF served
                          THEN created \cup {r.effects[i].to : i \in DOMAIN r.effects}
                          ELSE created
            /\ last' = [op |-> "Withdraw::try_from",
                        accounts |-> acc,
                        n_accounts |-> n_accounts,
                        is_signer |-> is_signer,
                        data_len |-> data_len,
                        instructions |-> ins,
                        now |-> now,
                        before |-> amount,
                        existed |-> created,
                        err |-> IF ~served THEN "AssociatedTokenProgramError" ELSE r.err,
                        arithmetic |-> FALSE,
                        effects |-> r.effects]
    /\ calls' = calls + 1
    /\ UNCHANGED <<amount, pool>>

Next == DepositProcess \/ DepositTryFrom \/ WithdrawTryFrom

Spec == Init /\ [][Next]_vars

(***************************************************************************)
(* The curve function on its own: every call draws its arguments           *)
(***************************************************************************)
U32_MAX == 2^(WordBits \div 2) - 1

CurveXs == {0, 100, 1000, 2^(WordBits - 1)}
CurveYs == {0, 100, U64_MAX}
CurveLs == {0, 1, 3, 7, 500}
CurveAs == {0, 1, 50, U64_MAX}
Precisions == {0, 1, 10, 100, U32_MAX}

InitCurve ==
    /\ amount = [k \in PoolTokenAccounts |-> 0]
    /\ created = UserAtas
    /\ pool = EmptyPool
    /\ calls = 0
    /\ last = [op |-> "none", err |-> "Ok", effects |-> <<>>]

XyDepositAmountsFromL ==
    /\ calls < MaxCalls
    /\ \E x \in CurveXs, y \in CurveYs, l \in CurveLs, a \in CurveAs,
          precision \in Precisions :
        LET r == xy_deposit_amounts_from_l(x, y, l, a, precision)
        IN  last' = [op |-> "xy_deposit_amounts_from_l",
                     x |-> x, y |-> y, l |-> l, a |-> a,
                     precision |-> precision,
                     err |-> r.err, deposit_x |-> r.x, deposit_y |-> r.y,
                     effects |-> <<>>]
    /\ calls' = calls + 1
    /\ UNCHANGED <<amount, created, pool>>

NextCurve == XyDepositAmountsFromL

SpecCurve == InitCurve /\ [][NextCurve]_vars

(***************************************************************************)
(* Claims                                                                  *)
(***************************************************************************)
\* the last call is a Deposit::process that read the balances and the amounts
DepositComputed == last.op = "Deposit::process" /\ last.arithmetic

\* the last call is a run of the curve function
CurveCalled == last.op = "xy_deposit_amounts_from_l"

\* C1: for a pool that is not empty, the share computation of Deposit returns
\* exactly min(floor(mint_x * supply / reserve_x), floor(mint_y * supply /
\* reserve_y)), or fails with InvalidMintSupply (a reserve or the supply is
\* zero) or with MathOverflow; it returns no other number.
C1_ProportionalSharesExact ==
    (DepositComputed /\ ~(last.reserves.x = 0 /\ last.reserves.y = 0)) =>
        LET rx == last.reserves.x
            ry == last.reserves.y
            lp == last.reserves.lp
            mx == last.instructions.mint_x
            my == last.instructions.mint_y
        IN  IF rx = 0 \/ ry = 0 \/ lp = 0
            THEN last.err = "InvalidMintSupply"
            ELSE \/ last.err = "MathOverflow"
                 \/ last.shares = Min((mx * lp) \div rx, (my * lp) \div ry)

\* C2: on a first deposit into an empty pool the shares minted are
\* floor(sqrt(mint_x * mint_y)), and the deposit is rejected with
\* InvalidMintSupply whenever that root is below 1000 or the product is zero.
C2_FirstDepositShares ==
    (DepositComputed /\ last.reserves = [x |-> 0, y |-> 0, lp |-> 0]) =>
        LET product == last.instructions.mint_x * last.instructions.mint_y
            s == last.shares
        IN  IF product < MinimumShares * MinimumShares
            THEN last.err = "InvalidMintSupply" /\ last.effects = <<>>
            ELSE /\ last.err \in {"Ok", "SlipageExceeded"}
                 /\ s >= MinimumShares
                 /\ s * s <= product
                 /\ product < (s + 1) * (s + 1)
                 /\ last.err = "Ok" =>
                        /\ Len(last.effects) = 3
                        /\ last.effects[3].kind = "MintTo"
                        /\ last.effects[3].amount = s

\* C2 witness: the first deposit (1000, 4000) into the empty pool mints 2000
C2_Witness ==
    /\ DepositComputed
    /\ last.reserves = [x |-> 0, y |-> 0, lp |-> 0]
    /\ last.instructions.mint_x = 1000
    /\ last.instructions.mint_y = 4000
    /\ last.err = "Ok"
    /\ last.shares = 2000

\* C3: Deposit uses the first-deposit formula exactly when reserve_x,
\* reserve_y and the share supply are all zero, and the proportional rule
\* with its consistency checks in every other pool state.
C3_BranchOnEmptyPool ==
    DepositComputed =>
        LET r == last.reserves
            ins == last.instructions
            expected == IF r.x = 0 /\ r.y = 0 /\ r.lp = 0
                        THEN initial_share_supply(ins.mint_x, ins.mint_y)
                        ELSE proportional_mint_amount(r.x, r.y, r.lp,
                                                      ins.mint_x, ins.mint_y)
        IN  IF expected.err # "Ok"
            THEN last.err = expected.err
            ELSE last.shares = expected.shares

\* C4: a successful Deposit requests a transfer of mint_x from the caller's X
\* account to vault X, a transfer of mint_y from the caller's Y account to
\* vault Y, and a mint of the computed shares to the caller's share account,
\* authorized by the pool's derived-address signature.
C4_DepositEffects ==
    (last.op = "Deposit::process" /\ last.err = "Ok") =>
        LET acc == last.accounts
            ins == last.instructions
            e == last.effects
        IN  /\ Len(e) = 3
            /\ e[1].kind = "Transfer" /\ e[1].from = acc.user_x_ata
            /\ e[1].to = acc.vault_x /\ e[1].amount = ins.mint_x
            /\ e[2].kind = "Transfer" /\ e[2].from = acc.user_y_ata
            /\ e[2].to = acc.vault_y /\ e[2].amount = ins.mint_y
            /\ e[3].kind = "MintTo" /\ e[3].mint = acc.lp_mint
            /\ e[3].amount = last.shares
            /\ e[3].to = acc.user_lp_ata
            /\ e[3].authority = acc.config
            /\ Len(e[3].signer_seeds) > 0

\* C5: a Deposit whose computed share amount is zero fails with
\* InvalidAmount, one whose computed share amount (not zero) is below
\* min_lp_amount fails with the slippage error, and in both cases no transfer
\* or mint is requested and the balances are unchanged.
C5_RejectedMintHasNoEffect ==
    DepositComputed =>
        LET r == last.reserves
            ins == last.instructions
            computed == lp_mint_tokens_supply(r.x, r.y, r.lp, ins.mint_x, ins.mint_y)
            rejected == last.effects = <<>> /\ amount = last.before
        IN  computed.err = "Ok" =>
              /\ computed.shares = 0 => (last.err = "InvalidAmount" /\ rejected)
              /\ (computed.shares # 0 /\ computed.shares < ins.min_lp_amount) =>
                    (last.err = "SlipageExceeded" /\ rejected)

\* C5 witness: reserves (1000, 2000), supply 500, deposit (100, 200) with
\* min_lp_amount 60 yields 50 shares and is rejected
C5_Witness ==
    /\ DepositComputed
    /\ last.reserves = [x |-> 1000, y |-> 2000, lp |-> 500]
    /\ last.instructions = [mint_x |-> 100, mint_y |-> 200, min_lp_amount |-> 60]
    /\ last.shares = 50
    /\ last.err = "SlipageExceeded"
    /\ amount = last.before

\* the values the curve function's formulas have, in unbounded integers, for
\* the arguments of the last call (of a call that returned Ok, so that every
\* intermediate value fits the wide type)
CurveExact ==
    LET ratio == ((last.l + last.a) * last.precision) \div last.l
    IN  [x |-> (last.x * ratio) \div last.precision - last.x,
         y |-> (last.y * ratio) \div last.precision - last.y]

\* C6: xy_deposit_amounts_from_l never returns a wrapped or truncated value:
\* each returned amount is the exact value of its wide-intermediate formula,
\* or the call fails with Overflow.
C6_NoSilentTruncation ==
    (CurveCalled /\ last.err = "Ok") =>
        /\ last.deposit_x = CurveExact.x
        /\ last.deposit_y = CurveExact.y

\* C7: paying the returned (deposit_x, deposit_y) for s shares and then
\* withdrawing the s shares as their proportional part of the new reserves
\* never returns more than was paid.
C7_RoundTripFavorsPool ==
    (CurveCalled /\ last.err = "Ok" /\ last.l > 0) =>
        LET s == last.a
            back_x == (s * (last.x + last.deposit_x)) \div (last.l + s)
            back_y == (s * (last.y + last.deposit_y)) \div (last.l + s)
        IN  back_x <= last.deposit_x /\ back_y <= last.deposit_y

\* 10^precision where it fits the wide type, and a value beyond the wide type
\* where it does not
TenTo(precision) == IF precision > 9 THEN U128_MAX + 1 ELSE 10^precision

\* no step of the claimed formulas, scaling by scale, overflows the wide type
\* or divides by zero
NoStepOverflows(x, y, l, a, scale) ==
    /\ l # 0 /\ scale # 0
    /\ scale <= U128_MAX \div (l + a)
    /\ LET ratio == ((l + a) * scale) \div l
       IN  /\ x = 0 \/ ratio <= U128_MAX \div x
           /\ y = 0 \/ ratio <= U128_MAX \div y

\* the amounts the claimed formulas give, scaling by scale
ScaledAmounts(x, y, l, a, scale) ==
    LET ratio == ((l + a) * scale) \div l
    IN  [x |-> (x * ratio) \div scale - x, y |-> (y * ratio) \div scale - y]

\* C8 as stated: the function scales by 10^precision, for every input where
\* no step overflows.
C8_ScalesByTenToPrecision ==
    (CurveCalled /\ NoStepOverflows(last.x, last.y, last.l, last.a,
                                    TenTo(last.precision))) =>
        LET want == ScaledAmounts(last.x, last.y, last.l, last.a,
                                  TenTo(last.precision))
        IN  (want.x <= U64_MAX /\ want.y <= U64_MAX) =>
                /\ last.err = "Ok"
                /\ last.deposit_x = want.x
                /\ last.deposit_y = want.y

\* C8 amended: the function scales by the precision argument itself: ratio =
\* floor((l + a) * precision / l), deposit_x = floor(x * ratio / precision) - x
\* and deposit_y = floor(y * ratio / precision) - y, for every input where no
\* step overflows (the narrowing of the results to 64 bits included).
C8_ScalesByPrecision ==
    (CurveCalled /\ NoStepOverflows(last.x, last.y, last.l, last.a,
                                    last.precision)) =>
        LET want == ScaledAmounts(last.x, last.y, last.l, last.a, last.precision)
        IN  (want.x <= U64_MAX /\ want.y <= U64_MAX) =>
                /\ last.err = "Ok"
                /\ last.deposit_x = want.x
                /\ last.deposit_y = want.y

\* C8 witness: x = 1000, y = 100, l = 7, a = 1, precision = 10: ratio 11,
\* deposit_x = 100, deposit_y = 10
C8_Witness ==
    /\ CurveCalled
    /\ last.x = 1000 /\ last.y = 100 /\ last.l = 7 /\ last.a = 1
    /\ last.precision = 10
    /\ last.err = "Ok"
    /\ last.deposit_x = 100 /\ last.deposit_y = 10

\* C9: Withdraw rejects with Expired exactly when the expiration is in the
\* past (expiration < now), for amount, min_x and min_y all positive.
C9_ExpiredOnlyWhenPast ==
    (last.op = "Withdraw::try_from" /\ last.now # None) =>
        (last.err = "Expired" <=> last.instructions.expiration < last.now)

\* the vault accounts of the last call are not both at the address derived
\* from (pool, asset)
VaultSubstituted ==
    \/ last.accounts.vault_x # AssociatedAddress(last.accounts.config,
                                                 last.accounts.mint_x)
    \/ last.accounts.vault_y # AssociatedAddress(last.accounts.config,
                                                 last.accounts.mint_y)

\* C10: in Deposit and in Withdraw, a vault account that is not at the
\* address derived from (pool, asset) makes the handler fail validation
\* before any share or amount arithmetic, also when the account's recorded
\* owner is the pool and its recorded asset is the right one.
C10_ForgedVaultRejected ==
    (last.op \in {"Deposit::process", "Withdraw::try_from"} /\ VaultSubstituted) =>
        last.err # "Ok" /\ ~last.arithmetic

(***************************************************************************)
(* The error codes a caller sees (error.rs)                                *)
(***************************************************************************)
\* enum PinocchioError with its declared discriminants
PinocchioError ==
    [IdenticalTokenMints |-> 0, InvalidMintAmount |-> 1, InvalidOwner |-> 2,
     MathOverflow |-> 3, InvalidMintSupply |-> 4, InvalidAmount |-> 5,
     SlipageExceeded |-> 6, LessThanMinimum |-> 7, Expired |-> 8,
     InvalidConfig |-> 9, InvalidLpMint |-> 10, InvalidMint |-> 11]

\* enum CurveError: no discriminant is declared, so the variants are
\* numbered from 0 in the order of their declaration
CurveError == <<"Overflow", "SlippageExceeded", "MathOverflow">>

CurveErrorDiscriminant(e) ==
    (CHOOSE i \in DOMAIN CurveError : CurveError[i] = e) - 1

\* From<PinocchioError> for ProgramError: Custom(e as u32)
pinocchio_error_from(e) == [tag |-> "Custom", code |-> PinocchioError[e]]

\* From<CurveError> for ProgramError: Custom(e as u32)
curve_error_from(e) == [tag |-> "Custom", code |-> CurveErrorDiscriminant(e)]

\* a PinocchioError reaches the caller
PinocchioErrorInto ==
    /\ calls < MaxCalls
    /\ \E e \in DOMAIN PinocchioError :
        last' = [op |-> "From<PinocchioError>", error |-> e,
                 err |-> pinocchio_error_from(e).tag,
                 code |-> pinocchio_error_from(e).code,
                 effects |-> <<>>]
    /\ calls' = calls + 1
    /\ UNCHANGED <<amount, created, pool>>

\* a CurveError reaches the caller
CurveErrorInto ==
    /\ calls < MaxCalls
    /\ \E i \in DOMAIN CurveError :
        last' = [op |-> "From<CurveError>", error |-> CurveError[i],
                 err |-> curve_error_from(CurveError[i]).tag,
                 code |-> curve_error_from(CurveError[i]).code,
                 effects |-> <<>>]
    /\ calls' = calls + 1
    /\ UNCHANGED <<amount, created, pool>>

NextErrors == PinocchioErrorInto \/ CurveErrorInto

SpecErrors == Init /\ [][NextErrors]_vars

\* the validation errors of PinocchioError
ValidationErrors ==
    {"IdenticalTokenMints", "InvalidMintAmount", "InvalidOwner",
     "InvalidConfig", "InvalidLpMint", "InvalidMint"}

\* C11: the code the caller sees for an arithmetic error (CurveError:
\* Overflow, SlippageExceeded, MathOverflow) is the code of no validation
\* error (PinocchioError: IdenticalTokenMints, InvalidMintAmount,
\* InvalidOwner, InvalidConfig, InvalidLpMint, InvalidMint), and the code
\* seen for a validation error is the code of no arithmetic error.
C11_ArithmeticAndValidationCodesDiffer ==
    /\ last.op = "From<CurveError>" =>
          \A v \in ValidationErrors :
              pinocchio_error_from(v) # [tag |-> last.err, code |-> last.code]
    /\ (last.op = "From<PinocchioError>" /\ last.error \in ValidationErrors) =>
          \A i \in DOMAIN CurveError :
              curve_error_from(CurveError[i]) # [tag |-> last.err, code |-> last.code]

(***************************************************************************)
(* Initialize (initialize.rs, helper.rs:61-87 and 141-160)                 *)
(***************************************************************************)
InitializeAccountsLEN == 10
\* the length below which the instruction data is rejected
InitializeDataMinLEN == 2
MaxFee == 1000
\* the longest instruction data drawn
MaxDataLen == 4

\* the byte values drawn: 232 and 3 are the low and the high byte of 1000
Bytes == {0, 3, 232, NewConfigBump}

RECURSIVE ByteStrings(_)
ByteStrings(n) ==
    IF n = 0 THEN {<<>>}
    ELSE LET shorter == ByteStrings(n - 1)
         IN  shorter \cup {Append(d, b) : d \in {e \in shorter : Len(e) = n - 1},
                                          b \in Bytes}

u16_from_le_bytes(low, high) == low + 256 * high

\* Pubkey::create_program_address(seeds, crate::ID), the address the signer
\* seeds of invoke_signed sign for: deterministic, and no two seed lists
\* share an address
SeedsAddress(seeds) ==
    CASE seeds = <<"config", NewConfigBump>> -> "new_config"
      [] seeds = <<"lp_mint", "new_config">> -> "new_lp_mint"
      [] OTHER -> OffLedger

\* InitializeConfigAccounts::try_from
initialize_accounts_try_from(n_accounts, acc, is_signer) ==
    IF n_accounts # InitializeAccountsLEN THEN "InvalidAccountData"
    ELSE FirstError(<<
        SignerAccountCheck(is_signer),
        MintInterfaceCheck(acc.mint_x),
        MintInterfaceCheck(acc.mint_y),
        IF acc.mint_x = acc.mint_y THEN "InvalidAccountData" ELSE "Ok"
    >>)

\* InitializeConfigInstruction::try_from on the bytes data (data[0] of the
\* program is data[1] here). Indexing data[2] of two bytes is out of
\* bounds: the program panics.
initialize_instruction_try_from(data) ==
    IF Len(data) < InitializeDataMinLEN
    THEN [err |-> "InvalidAccountData", fee |-> 0, config_bump |-> 0]
    ELSE IF Len(data) < 3
    THEN [err |-> "Panic", fee |-> 0, config_bump |-> 0]
    ELSE IF u16_from_le_bytes(data[1], data[2]) > MaxFee
    THEN [err |-> "InvalidAccountData", fee |-> 0, config_bump |-> 0]
    ELSE [err |-> "Ok", fee |-> u16_from_le_bytes(data[1], data[2]),
          config_bump |-> data[3]]

\* pinocchio_system CreateAccount { from, to, lamports, space, owner }
\* .invoke_signed(signer)
CreateAccount(from, to, space, owner, signer_seeds) ==
    [kind |-> "CreateAccount", from |-> from, to |-> to, space |-> space,
     owner |-> owner, signer_seeds |-> signer_seeds]

\* ProgramAccount::init: the owner it asks for is the owner the account has
\* when init is called
program_account_init(payer, account, seeds, space) ==
    CreateAccount(payer, account, space, AccountOwner(account), seeds)

\* the creations InitializeConfig::try_from requests, in the order of the
\* code
initialize_requests(acc, ins) ==
    << program_account_init(acc.authority, acc.config,
                            <<"config", ins.config_bump>>, ConfigLEN),
       program_account_init(acc.authority, acc.lp_mint,
                            <<"lp_mint", acc.config>>, MintLEN),
       CreateAssociated(acc.vault_x, acc.mint_x, acc.authority, acc.config),
       CreateAssociated(acc.vault_y, acc.mint_y, acc.authority, acc.config) >>

\* The system program serves a CreateAccount for an account that signs (at
\* the address of the signer seeds) and is not in use; the associated token
\* program creates the account at the address derived from (wallet, mint).
CreationServed(p, e) ==
    IF e.kind = "CreateAccount"
    THEN /\ e.to = SeedsAddress(e.signer_seeds)
         /\ \/ e.to = "new_config" /\ p.data_len = 0 /\ p.owner = SystemProgram
            \/ e.to \in NewPoolAccounts \ p.accounts
    ELSE /\ e.to = AssociatedAddress(e.authority, e.mint)
         /\ e.to \in NewPoolAccounts \ p.accounts

\* the accounts of the new pool after the creation e
ApplyCreation(p, e) ==
    IF e.to = "new_config"
    THEN [p EXCEPT !.owner = e.owner, !.data_len = e.space]
    ELSE [p EXCEPT !.accounts = @ \cup {e.to}]

\* The requests made one after the other, each followed by `?`: the first
\* one that is not served ends the sequence with its error.
RECURSIVE serve_creations(_, _, _)
serve_creations(p, requests, requested) ==
    IF requests = <<>> THEN [err |-> "Ok", pool |-> p, effects |-> requested]
    ELSE LET e == Head(requests)
         IN  IF CreationServed(p, e)
             THEN serve_creations(ApplyCreation(p, e), Tail(requests),
                                  Append(requested, e))
             ELSE [err |-> IF e.kind = "CreateAccount"
                           THEN "SystemProgramError"
                           ELSE "AssociatedTokenProgramError",
                   pool |-> p, effects |-> Append(requested, e)]

\* Config::load_mut on an account of this length and owner
config_load_mut(data_len, owner) ==
    IF data_len # ConfigLEN THEN "InvalidAccountData"
    ELSE IF owner # AmmProgram THEN "InvalidAccountOwner"
    ELSE "Ok"

\* Config::set_inner
set_inner(authority, mint_x, mint_y, x_vault, y_vault, lp_mint, fee, bump) ==
    [authority |-> authority, mint_x |-> mint_x, mint_y |-> mint_y,
     mint_x_vault |-> x_vault, mint_y_vault |-> y_vault,
     lp_mint |-> lp_mint, fee |-> fee, config_bump |-> bump]

\* InitializeConfig::try_from followed by InitializeConfig::process, as one
\* instruction: allocated is the new pool as process finds it, pool what the
\* instruction leaves (an instruction that fails leaves nothing).
initialize(n_accounts, acc, is_signer, data) ==
    LET accounts == initialize_accounts_try_from(n_accounts, acc, is_signer)
        ins == initialize_instruction_try_from(data)
        tried == serve_creations(pool, initialize_requests(acc, ins), <<>>)
        loaded == config_load_mut(tried.pool.data_len, tried.pool.owner)
        config == set_inner(acc.authority, acc.mint_x, acc.mint_y, acc.vault_x,
                            acc.vault_y, acc.lp_mint, ins.fee, ins.config_bump)
    IN  IF accounts # "Ok"
        THEN [err |-> accounts, effects |-> <<>>, allocated |-> pool,
              pool |-> pool]
        ELSE IF ins.err # "Ok"
        THEN [err |-> ins.err, effects |-> <<>>, allocated |-> pool,
              pool |-> pool]
        ELSE IF tried.err # "Ok"
        THEN [err |-> tried.err, effects |-> tried.effects,
              allocated |-> tried.pool, pool |-> pool]
        ELSE IF loaded # "Ok"
        THEN [err |-> loaded, effects |-> tried.effects,
              allocated |-> tried.pool, pool |-> pool]
        ELSE [err |-> "Ok", effects |-> tried.effects,
              allocated |-> tried.pool,
              pool |-> [tried.pool EXCEPT !.config = config]]

GenuineInitialize ==
    [authority |-> "user", config |-> "new_config",
     mint_x |-> "mint_x", mint_y |-> "mint_y",
     vault_x |-> "new_vault_x", vault_y |-> "new_vault_y",
     lp_mint |-> "new_lp_mint"]

InitializeAccountLists ==
    { GenuineInitialize,
      [GenuineInitialize EXCEPT !.mint_y = "mint_x"],
      [GenuineInitialize EXCEPT !.mint_x = "user"],
      [GenuineInitialize EXCEPT !.config = "config"],
      [GenuineInitialize EXCEPT !.vault_x = "vault_x"] }

\* an Initialize instruction on an account list and instruction data
Initialize ==
    /\ calls < MaxCalls
    /\ \E acc \in InitializeAccountLists,
          n_accounts \in {InitializeAccountsLEN - 1, InitializeAccountsLEN},
          is_signer \in BOOLEAN :
       LET accounts == initialize_accounts_try_from(n_accounts, acc, is_signer)
       IN
       \* data that is not read is drawn once, as the empty string
       \E data \in IF accounts = "Ok" THEN ByteStrings(MaxDataLen) ELSE {<<>>} :
        LET r == initialize(n_accounts, acc, is_signer, data)
        IN  /\ pool' = r.pool
            /\ last' = [op |-> "Initialize",
                        accounts |-> acc,
                        n_accounts |-> n_accounts,
                        is_signer |-> is_signer,
                        parsed |-> accounts = "Ok",
                        data |-> data,
                        before |-> pool,
                        allocated |-> r.allocated,
                        err |-> r.err,
                        arithmetic |-> FALSE,
                        effects |-> r.effects]
    /\ calls' = calls + 1
    /\ UNCHANGED <<amount, created>>

NextHandlers == Next \/ Initialize

SpecHandlers == Init /\ [][NextHandlers]_vars

\* the last call is an Initialize that read its instruction data
InitializeParsed ==
    /\ last.op = "Initialize"
    /\ last.parsed

\* the last call is an Initialize of the pool at new_config by a signing
\* caller, with two distinct mints, a fee of at most 1000 and the salt of
\* new_config in three bytes of data, the pool storage not populated
ValidInitialize ==
    /\ InitializeParsed
    /\ last.accounts = GenuineInitialize
    /\ Len(last.data) = 3
    /\ u16_from_le_bytes(last.data[1], last.data[2]) <= MaxFee
    /\ last.data[3] = NewConfigBump
    /\ last.before = EmptyPool

\* C12: a valid Initialize completes and leaves the pool initialized: the
\* pool storage is allocated with this program as its owner, so that loading
\* it succeeds, and the stored Config holds the supplied authority, the two
\* mints, the two vaults, the share mint, the fee and the salt.
C12_ValidInitializeCompletes ==
    ValidInitialize =>
        /\ last.err = "Ok"
        /\ last.allocated.owner = AmmProgram
        /\ pool.owner = AmmProgram /\ pool.data_len = ConfigLEN
        /\ pool.config =
              [authority |-> "user", mint_x |-> "mint_x", mint_y |-> "mint_y",
               mint_x_vault |-> "new_vault_x", mint_y_vault |-> "new_vault_y",
               lp_mint |-> "new_lp_mint",
               fee |-> u16_from_le_bytes(last.data[1], last.data[2]),
               config_bump |-> NewConfigBump]

\* the errors that report the shape of the input
InputShapeErrors == {"InvalidInstructionData", "InvalidAccountData"}

\* C13: Initialize with instruction data whose length is not 3 bytes (the
\* 2-byte fee and the 1-byte salt) is rejected with an input-shape error
\* returned to the caller: the parsing does not abort abnormally, and no
\* account creation is requested.
C13_WrongLengthRejected ==
    (InitializeParsed /\ Len(last.data) # 3) =>
        /\ last.err \in InputShapeErrors
        /\ last.effects = <<>>
        /\ pool = last.before

\* the operations of the handlers
HandlerOps ==
    {"Initialize", "Deposit::try_from", "Deposit::process", "Withdraw::try_from"}

\* the errors with which the callee of an effect request refuses it
CalleeErrors ==
    {"SystemProgramError", "AssociatedTokenProgramError", "TokenProgramError"}

\* C14: in every handler, an effect request (account creation, associated
\* account creation, transfer, mint) is issued only after all the
\* validation checks and all the arithmetic of the handler have succeeded:
\* a handler that has requested an effect fails on none of its own checks.
C14_NoEffectBeforeChecks ==
    (last.op \in HandlerOps /\ last.effects # <<>>) =>
        last.err \in {"Ok"} \cup CalleeErrors

\* the last call is a Deposit::try_from or a Withdraw::try_from by a signing
\* caller on the genuine account list
ConstructionCalled(op, n_accounts, genuine) ==
    /\ last.op = op
    /\ last.n_accounts = n_accounts
    /\ last.is_signer
    /\ last.accounts = genuine

\* C15: lazy account creation is reachable. A Deposit submitted while the
\* caller's share account does not exist (the caller's two asset accounts
\* do) is not rejected for the absence of the account, which IllegalOwner
\* reports; and a Withdraw submitted while the caller's asset account does
\* not exist (the caller's share account does) is not rejected for it.
C15_AbsentAccountNotRejected ==
    /\ ( /\ ConstructionCalled("Deposit::try_from", DepositAccountsLEN, GenuineDeposit)
         /\ "user_lp_ata" \notin last.existed
         /\ {"user_x_ata", "user_y_ata"} \subseteq last.existed )
       => last.err # "IllegalOwner"
    /\ ( /\ ConstructionCalled("Withdraw::try_from", WithdrawAccountsLEN, GenuineWithdraw)
         /\ "user_x_ata" \notin last.existed
         /\ {"user_y_ata", "user_lp_ata"} \subseteq last.existed )
       => last.err # "IllegalOwner"

\* the genuine account lists of a Deposit: vault_lp is the share account
\* derived for one of the two vaults
GenuineDepositLists ==
    { [GenuineDeposit EXCEPT !.vault_lp = v] : v \in {"vault_lp", "vault_lp_y"} }

\* the last call is a Deposit::try_from by a signing caller on a genuine
\* account list, all the caller's accounts existing, and the amounts it
\* read, if it read any, are 24 bytes of data with mint_x and mint_y positive
GenuineDepositSubmitted ==
    /\ last.op = "Deposit::try_from"
    /\ last.n_accounts = DepositAccountsLEN
    /\ last.is_signer
    /\ last.accounts \in GenuineDepositLists
    /\ last.existed = UserAtas
    /\ last.data_len \in {None, DepositDataLEN}
    /\ last.data_len = DepositDataLEN =>
          last.instructions.mint_x > 0 /\ last.instructions.mint_y > 0

\* C16: a Deposit by a signing caller on a genuine account list (two
\* different mints, two different vaults owned by the pool, each holding its
\* mint, user accounts derived for (user, mint), the share mint derived
\* from the pool address) with amounts that pass the numeric checks passes
\* the account validation and is accepted.
C16_GenuineDepositAccepted ==
    GenuineDepositSubmitted => last.err = "Ok"

\* the last call is a Deposit::process that succeeded on a pool that was
\* not empty: a reserve or the share supply it read was not zero
DepositedIntoPool ==
    /\ last.op = "Deposit::process"
    /\ last.err = "Ok"
    /\ ~(last.reserves.x = 0 /\ last.reserves.y = 0 /\ last.reserves.lp = 0)

====
